---- MODULE Spec2Model ----
(***************************************************************************)
(* QTask broker: the task validator (Task.__init__), the task store        *)
(* (TaskManager.__tasks), the scheduler loop (TaskManager._manage) and the *)
(* dispatchers (__send_http, __send_socket), with the submission handler   *)
(* (server.add_task).                                                      *)
(*                                                                         *)
(* Threads are interleaved at the granularity of one bytecode-atomic list  *)
(* operation (CPython list.append, list.remove and the list iterator's     *)
(* next are atomic); a network call is a state of its own (pc = "send").   *)
(***************************************************************************)
EXTENDS Integers, Sequences, FiniteSets, TLC

\* Bounds of the model.
MaxTasks == 2       \* Task objects constructed in one behaviour
MaxTime == 2        \* the clock runs 0..MaxTime
MaxThreads == 2     \* scheduler threads started by manage()
PoolSize == 2       \* entries of user_agents that are told apart
MaxManagers == 2    \* calls of TaskManager()

-----------------------------------------------------------------------------
(* JSON values of a submission. A key that is missing reads as Absent,     *)
(* which is what dict.get returns for it (None).                           *)

Absent == [t |-> "absent"]
Str(s) == [t |-> "str", s |-> s]
Num(n) == [t |-> "num", n |-> n]
Address(type, link) == [t |-> "obj", type |-> type, link |-> link]
Settings(time, data) == [t |-> "obj", time |-> time, data |-> data]
Data(headers) == [t |-> "obj", headers |-> headers]
EmptyDict == [t |-> "obj"]

IsDict(v) == v.t = "obj"

\* Python truthiness of a JSON value: None, "", 0 and {} are false.
Truthy(v) ==
    CASE v.t = "absent" -> FALSE
      [] v.t = "str" -> v.s # ""
      [] v.t = "num" -> v.n # 0
      [] v.t = "obj" -> \E k \in (DOMAIN v) \ {"t"} : v[k] # Absent

Url == Str("http://example.test/x")
HostPort == Str("127.0.0.1:9")

Titles == {Absent, Str(""), Str("ping")}
Types == {Absent, Str("http"), Str("socket"), Str("udp")}
Links == {Absent, Str(""), Url, HostPort}
Times == {Absent, Str("soon")} \cup {Num(n) : n \in -1..1}

\* Headers given by hand in settings.data.
CustomHeaders == [t |-> "obj", Accept |-> Str("text/plain")]

Datas == {Absent, Data(Str("auto")), Data(CustomHeaders)}

Addresses == {Absent} \cup {Address(ty, ln) : ty \in Types, ln \in Links}
SettingsValues == {Absent} \cup {Settings(tm, d) : tm \in Times, d \in Datas}

\* Every submission payload the validator is tried on.
Payloads ==
    {[title |-> ti, address |-> a, settings |-> s] :
        ti \in Titles, a \in Addresses, s \in SettingsValues}

\* The submissions producers send while the scheduler runs.
LinkOf(type) == IF type = Str("http") THEN Url ELSE HostPort

\* settings.data is of use to the http dispatcher only (its headers key).
SubmitData(type) == IF type = Str("http") THEN Datas ELSE {Absent}

Submissions ==
    UNION {{[title |-> Str("ping"), address |-> Address(ty, LinkOf(ty)),
             settings |-> Settings(Num(n), d)] :
                n \in 0..1, d \in SubmitData(ty)} :
           ty \in {Str("http"), Str("socket"), Str("udp")}}

-----------------------------------------------------------------------------
VARIABLES
    now,         \* time.time()
    tasks,       \* TaskManager.__tasks: the list, as a sequence of Task objects' ids
    heap,        \* the Task objects: id -> fields (NoTask before construction)
    pc,          \* each scheduler thread's position in _manage
    idx,         \* each scheduler thread's list-iterator index
    cur,         \* the task a thread's __send_* call was given (0: none)
    req,         \* the network call a thread has in progress
    attempts,    \* history: calls of __send_http / __send_socket per task
    failed,      \* history: tasks whose __send_* call raised
    dueAtStart,  \* history: per thread, the tasks stored and due when its scan began
    lastCall,    \* history: the last call of a handler or store method, its input and outcome
    scan,        \* history: per thread, the list when its scan began and the tasks it has examined
    cls,         \* the attributes TaskManager.__new__ reads and sets on the class
    managers     \* history: the objects the calls of TaskManager() returned

vars == <<now, tasks, heap, pc, idx, cur, req, attempts, failed, dueAtStart, lastCall, scan, cls, managers>>

Threads == 1..MaxThreads
Ids == 1..MaxTasks

NoTask == [t |-> "notask"]
NoReq == [kind |-> "none"]
NoCall == [t |-> "nocall"]
NoScan == [start |-> <<>>, seen |-> <<>>]

Range(s) == {s[i] : i \in 1..Len(s)}

Created == {i \in Ids : heap[i] # NoTask}

-----------------------------------------------------------------------------
(* Task.__init__: the validation and the construction.                     *)

Raise(e) == [raised |-> e, task |-> NoTask]
Return(task) == [raised |-> "none", task |-> task]

\* The validator without the test of address.link.
TaskInitNoLinkTest(data, clock) ==
    LET title == data.title
        address == data.address
        settings == data.settings
    IN  IF ~(Truthy(title) /\ IsDict(address) /\ IsDict(settings))
        THEN Raise("ValidateError")
        ELSE IF ~Truthy(address.type)
        THEN Raise("ValidateError")
        ELSE IF ~Truthy(settings.time)
        THEN Raise("ValidateError")
        ELSE IF settings.time.t # "num"
        THEN Raise("TypeError")
        ELSE Return([title |-> title,
                     address_type |-> address.type,
                     address_link |-> address.link,
                     settings_time |-> settings.time.n + clock,
                     settings_data |-> IF settings.data = Absent
                                       THEN EmptyDict ELSE settings.data])

TaskInit(data, clock) ==
    LET title == data.title
        address == data.address
        settings == data.settings
    IN  IF ~(Truthy(title) /\ IsDict(address) /\ IsDict(settings))
        THEN Raise("ValidateError")
        ELSE IF ~(Truthy(address.type) /\ Truthy(address.link))
        THEN Raise("ValidateError")
        ELSE IF ~Truthy(settings.time)
        THEN Raise("ValidateError")
        ELSE IF settings.time.t # "num"
        THEN Raise("TypeError")      \* str + float
        ELSE Return([title |-> title,
                     address_type |-> address.type,
                     address_link |-> address.link,
                     settings_time |-> settings.time.n + clock,
                     settings_data |-> IF settings.data = Absent
                                       THEN EmptyDict ELSE settings.data])

-----------------------------------------------------------------------------
(* TaskManager: the store.                                                 *)

append_task(list, id) == Append(list, id)

\* list.remove: deletes the first element equal to the task (Task defines no
\* __eq__, so equal is identical); the caller checks membership (ValueError).
RemoveAt(list, i) == SubSeq(list, 1, i - 1) \o SubSeq(list, i + 1, Len(list))

\* A removal by position (list.pop()) in place of the removal by value.
remove_last(list, id) == SubSeq(list, 1, Len(list) - 1)

remove_task(list, id) ==
    RemoveAt(list, CHOOSE i \in 1..Len(list) :
                      list[i] = id /\ \A j \in 1..(i - 1) : list[j] # id)

\* The instant test with the comparison turned round.
IsDueInverted(task, clock) == task.settings_time >= clock

\* The instant test of _manage: `if not task.settings_time <= time.time(): continue`.
IsDue(task, clock) == task.settings_time <= clock

DueInStore == {id \in Range(tasks) : IsDue(heap[id], now)}

-----------------------------------------------------------------------------
(* server.add_task: Task(data), then append_task.                          *)

add_task(data) ==
    /\ Cardinality(Created) < MaxTasks
    /\ LET r == TaskInit(data, now)
           id == Cardinality(Created) + 1
           after == IF r.raised = "none" THEN append_task(tasks, id) ELSE tasks
       IN  /\ tasks' = after
           /\ heap' = IF r.raised = "none" THEN [heap EXCEPT ![id] = r.task] ELSE heap
           /\ lastCall' = [t |-> "call", data |-> data, at |-> now,
                           raised |-> r.raised, before |-> tasks, after |-> after]
    /\ UNCHANGED <<now, pc, idx, cur, req, attempts, failed, dueAtStart, scan, cls, managers>>

\* TaskManager.__new__: `if not hasattr(cls, 'instance'): cls.__instance = ...`
\* and `return cls.__instance`. Inside the class body the name __instance is
\* mangled: the attribute set and returned is _TaskManager__instance.
NoClassAttrs == [attrs |-> {}, instance |-> 0, objects |-> 0]

New(c) ==
    IF "instance" \notin c.attrs
    THEN [attrs |-> c.attrs \cup {"_TaskManager__instance"},
          instance |-> c.objects + 1,
          objects |-> c.objects + 1]
    ELSE c

\* A call of TaskManager().
NewManager ==
    /\ Len(managers) < MaxManagers
    /\ cls' = New(cls)
    /\ managers' = Append(managers, New(cls).instance)
    /\ UNCHANGED <<now, tasks, heap, pc, idx, cur, req, attempts, failed, dueAtStart, lastCall, scan>>

\* A call of TaskManager.remove_task by a user of the store: list.remove
\* raises ValueError for a task that is not in the list; the method returns
\* None.
RemoveCall(id) ==
    /\ id \in Created
    /\ LET present == id \in Range(tasks)
           after == IF present THEN remove_task(tasks, id) ELSE tasks
       IN  /\ tasks' = after
           /\ lastCall' = [t |-> "remove", id |-> id,
                           again |-> (lastCall.t = "remove" /\ lastCall.id = id),
                           raised |-> IF present THEN "none" ELSE "ValueError",
                           returned |-> "None",
                           before |-> tasks, after |-> after]
    /\ UNCHANGED <<now, heap, pc, idx, cur, req, attempts, failed, dueAtStart, scan, cls, managers>>

\* What a connection delivers: bytes that are not UTF-8, UTF-8 text that is
\* not JSON, or the JSON text of a payload.
Messages ==
    {[kind |-> "binary", data |-> Absent], [kind |-> "text", data |-> Absent]}
        \cup {[kind |-> "json", data |-> d] : d \in Payloads}

\* server.handle_request: recv and data.decode() (outside the try), then
\* json.loads and add_task inside `try ... except json.JSONDecodeError ...
\* except ValidateError`. The logger decorator re-raises (raise_e=True).
handle_request(m) ==
    IF m.kind = "json"
    THEN add_task(m.data)
    ELSE /\ lastCall' = [t |-> "request", bytes |-> m.kind,
                         raised |-> IF m.kind = "binary"
                                    THEN "UnicodeDecodeError" ELSE "none",
                         caught |-> IF m.kind = "text"
                                    THEN "JSONDecodeError" ELSE "none",
                         before |-> tasks, after |-> tasks]
         /\ UNCHANGED <<now, tasks, heap, pc, idx, cur, req, attempts, failed,
                        dueAtStart, scan, cls, managers>>

\* The clock advances.
Tick ==
    /\ now < MaxTime
    /\ now' = now + 1
    /\ UNCHANGED <<tasks, heap, pc, idx, cur, req, attempts, failed, dueAtStart, lastCall, scan, cls, managers>>

-----------------------------------------------------------------------------
(* TaskManager.manage / _manage: the scheduler threads.                    *)
(*   idle  : not started                                                   *)
(*   scan  : inside `for task in self.__tasks`, before the iterator's next *)
(*   send  : inside __send_http / __send_socket, the network call running  *)
(*   sleep : inside time.sleep(TIMEOUT)                                    *)
(*   dead  : an exception left _manage and the thread ended                *)

\* manage(): starts a thread on _manage, which enters its first scan.
manage(s) ==
    /\ pc[s] = "idle"
    /\ pc' = [pc EXCEPT ![s] = "scan"]
    /\ idx' = [idx EXCEPT ![s] = 0]
    /\ dueAtStart' = [dueAtStart EXCEPT ![s] = DueInStore]
    /\ scan' = [scan EXCEPT ![s] = [start |-> tasks, seen |-> <<>>]]
    /\ UNCHANGED <<now, tasks, heap, cur, req, attempts, failed, lastCall, cls, managers>>

\* _get_random_user_agent: one entry of user_agents under the User-Agent key.
UserAgents == 1..PoolSize
get_random_user_agent(agent) == [t |-> "obj", UserAgent |-> agent]

\* __send_http without the test `if headers == 'auto'`.
HttpRequestNoAuto(task, agent) ==
    IF Truthy(task.settings_data)
    THEN LET data == task.settings_data
             headers == IF data.headers = Absent THEN EmptyDict ELSE data.headers
         IN  [kind |-> "http", url |-> task.address_link, data |-> data,
              headers |-> headers]
    ELSE [kind |-> "http", url |-> task.address_link, data |-> Absent, headers |-> Absent]

\* What __send_http hands to requests.get.
HttpRequest(task, agent) ==
    IF Truthy(task.settings_data)
    THEN LET data == task.settings_data
             headers == IF data.headers = Absent THEN EmptyDict ELSE data.headers
         IN  [kind |-> "http", url |-> task.address_link, data |-> data,
              headers |-> IF headers = Str("auto")
                          THEN get_random_user_agent(agent) ELSE headers]
    ELSE [kind |-> "http", url |-> task.address_link, data |-> Absent, headers |-> Absent]

\* What __send_socket connects to and writes: json.dumps(task.settings_data).
SocketRequest(task) ==
    [kind |-> "socket", url |-> task.address_link, data |-> task.settings_data,
     headers |-> Absent]

\* The agents random.choice may return for this task (one choice when none is drawn).
AgentChoices(task) ==
    IF /\ task.address_type = Str("http")
       /\ Truthy(task.settings_data)
       /\ task.settings_data.headers = Str("auto")
    THEN UserAgents ELSE {1}

\* The branch of _manage on address_type: which __send_* is called, if any.
Dispatches(task) == task.address_type \in {Str("http"), Str("socket")}

\* The call of __send_http / __send_socket by thread s for task id, up to the
\* network call.
BeginSend(s, id, agent) ==
    LET task == heap[id]
    IN  /\ pc' = [pc EXCEPT ![s] = "send"]
        /\ cur' = [cur EXCEPT ![s] = id]
        /\ req' = [req EXCEPT ![s] = IF task.address_type = Str("http")
                                     THEN HttpRequest(task, agent)
                                     ELSE SocketRequest(task)]
        /\ attempts' = [attempts EXCEPT ![id] = @ + 1]

\* One turn of `for task in self.__tasks`: the iterator's next, the instant
\* test and the branch on address_type.
ScanExhausted(s) ==
    /\ pc[s] = "scan"
    /\ idx[s] >= Len(tasks)
    /\ pc' = [pc EXCEPT ![s] = "sleep"]
    /\ UNCHANGED <<now, tasks, heap, idx, cur, req, attempts, failed, dueAtStart, lastCall, scan, cls, managers>>

ScanSkip(s) ==
    /\ pc[s] = "scan"
    /\ idx[s] < Len(tasks)
    /\ LET task == heap[tasks[idx[s] + 1]]
       IN  ~IsDue(task, now) \/ ~Dispatches(task)
    /\ idx' = [idx EXCEPT ![s] = @ + 1]
    /\ scan' = [scan EXCEPT ![s].seen = Append(@, tasks[idx[s] + 1])]
    /\ UNCHANGED <<now, tasks, heap, pc, cur, req, attempts, failed, dueAtStart, lastCall, cls, managers>>

\* The http dispatcher writing the headers it drew back into the task
\* (`data['headers'] = self._get_random_user_agent()`).
ScanSendStoresHeaders(s) ==
    /\ pc[s] = "scan"
    /\ idx[s] < Len(tasks)
    /\ LET id == tasks[idx[s] + 1]
       IN  /\ IsDue(heap[id], now)
           /\ Dispatches(heap[id])
           /\ \E agent \in AgentChoices(heap[id]) :
                  /\ BeginSend(s, id, agent)
                  /\ heap' = [heap EXCEPT ![id].settings_data =
                                  IF /\ heap[id].address_type = Str("http")
                                     /\ Truthy(@)
                                     /\ @.headers = Str("auto")
                                  THEN Data(get_random_user_agent(agent)) ELSE @]
    /\ idx' = [idx EXCEPT ![s] = @ + 1]
    /\ scan' = [scan EXCEPT ![s].seen = Append(@, tasks[idx[s] + 1])]
    /\ UNCHANGED <<now, tasks, failed, dueAtStart, lastCall, cls, managers>>

ScanSend(s) ==
    /\ pc[s] = "scan"
    /\ idx[s] < Len(tasks)
    /\ LET id == tasks[idx[s] + 1]
       IN  /\ IsDue(heap[id], now)
           /\ Dispatches(heap[id])
           /\ \E agent \in AgentChoices(heap[id]) : BeginSend(s, id, agent)
    /\ idx' = [idx EXCEPT ![s] = @ + 1]
    /\ scan' = [scan EXCEPT ![s].seen = Append(@, tasks[idx[s] + 1])]
    /\ UNCHANGED <<now, tasks, heap, failed, dueAtStart, lastCall, cls, managers>>

\* The network call returns normally and __send_* goes on to remove_task;
\* list.remove raises ValueError when the task is no longer in the list, and
\* nothing in _manage catches it.
SendReturns(s) ==
    /\ pc[s] = "send"
    /\ IF cur[s] \in Range(tasks)
       THEN /\ tasks' = remove_task(tasks, cur[s])
            /\ pc' = [pc EXCEPT ![s] = "scan"]
       ELSE /\ tasks' = tasks
            /\ pc' = [pc EXCEPT ![s] = "dead"]
    /\ cur' = [cur EXCEPT ![s] = 0]
    /\ req' = [req EXCEPT ![s] = NoReq]
    /\ UNCHANGED <<now, heap, idx, attempts, failed, dueAtStart, lastCall, scan, cls, managers>>

\* A dispatcher that removes the task in a `finally`, also when the call raised.
SendRaisesRemoves(s) ==
    /\ pc[s] = "send"
    /\ pc' = [pc EXCEPT ![s] = "dead"]
    /\ tasks' = IF cur[s] \in Range(tasks) THEN remove_task(tasks, cur[s]) ELSE tasks
    /\ failed' = failed \cup {cur[s]}
    /\ cur' = [cur EXCEPT ![s] = 0]
    /\ req' = [req EXCEPT ![s] = NoReq]
    /\ UNCHANGED <<now, heap, idx, attempts, dueAtStart, lastCall, scan, cls, managers>>

\* The network call raises (connection refused, timeout, DNS failure): the
\* exception leaves __send_*, then the for and the while of _manage.
SendRaises(s) ==
    /\ pc[s] = "send"
    /\ pc' = [pc EXCEPT ![s] = "dead"]
    /\ failed' = failed \cup {cur[s]}
    /\ cur' = [cur EXCEPT ![s] = 0]
    /\ req' = [req EXCEPT ![s] = NoReq]
    /\ UNCHANGED <<now, tasks, heap, idx, attempts, dueAtStart, lastCall, scan, cls, managers>>

\* time.sleep(TIMEOUT) returns and the next scan begins with a new iterator.
Wake(s) ==
    /\ pc[s] = "sleep"
    /\ pc' = [pc EXCEPT ![s] = "scan"]
    /\ idx' = [idx EXCEPT ![s] = 0]
    /\ dueAtStart' = [dueAtStart EXCEPT ![s] = DueInStore]
    /\ scan' = [scan EXCEPT ![s] = [start |-> tasks, seen |-> <<>>]]
    /\ UNCHANGED <<now, tasks, heap, cur, req, attempts, failed, lastCall, cls, managers>>

-----------------------------------------------------------------------------
Init ==
    /\ now = 0
    /\ tasks = <<>>
    /\ heap = [i \in Ids |-> NoTask]
    /\ pc = [s \in Threads |-> "idle"]
    /\ idx = [s \in Threads |-> 0]
    /\ cur = [s \in Threads |-> 0]
    /\ req = [s \in Threads |-> NoReq]
    /\ attempts = [i \in Ids |-> 0]
    /\ failed = {}
    /\ dueAtStart = [s \in Threads |-> {}]
    /\ lastCall = NoCall
    /\ scan = [s \in Threads |-> NoScan]
    /\ cls = New(NoClassAttrs)
    /\ managers = <<New(NoClassAttrs).instance>>

Submit == \E d \in Submissions : add_task(d)
Manage == manage(1)                              \* server.py calls manage() once
ManageAgain == \E s \in Threads \ {1} : manage(s)
Scan == \E s \in Threads : ScanExhausted(s) \/ ScanSkip(s) \/ ScanSend(s)
Send == \E s \in Threads : SendReturns(s) \/ SendRaises(s)
Sleep == \E s \in Threads : Wake(s)

\* The server as it runs: producers and the one scheduler thread.
Next == Submit \/ Tick \/ Manage \/ Scan \/ Send \/ Sleep

Spec == Init /\ [][Next]_vars

\* manage() called more than once: several scheduler threads on the one list.
NextMulti == Next \/ ManageAgain

SpecMulti == Init /\ [][NextMulti]_vars

\* The store and the manager as their users call them, no scheduler thread.
Remove == \E id \in Ids : RemoveCall(id)

NextApi == Submit \/ Tick \/ NewManager \/ Remove

SpecApi == Init /\ [][NextApi]_vars

\* The validator on every payload: one submission, at any instant, to a store
\* that is empty or holds a task accepted before.
Earlier == TaskInit([title |-> Str("ping"), address |-> Address(Str("http"), Url),
                     settings |-> Settings(Num(1), Absent)], 0).task

InitSubmit ==
    /\ now \in 0..MaxTime
    /\ \/ tasks = <<>> /\ heap = [i \in Ids |-> NoTask]
       \/ tasks = <<1>> /\ heap = [i \in Ids |-> IF i = 1 THEN Earlier ELSE NoTask]
    /\ pc = [s \in Threads |-> "idle"]
    /\ idx = [s \in Threads |-> 0]
    /\ cur = [s \in Threads |-> 0]
    /\ req = [s \in Threads |-> NoReq]
    /\ attempts = [i \in Ids |-> 0]
    /\ failed = {}
    /\ dueAtStart = [s \in Threads |-> {}]
    /\ lastCall = NoCall
    /\ scan = [s \in Threads |-> NoScan]
    /\ cls = New(NoClassAttrs)
    /\ managers = <<New(NoClassAttrs).instance>>

SubmitAny == lastCall = NoCall /\ \E d \in Payloads : add_task(d)

SpecSubmit == InitSubmit /\ [][SubmitAny]_vars

\* The request handler on every message: one connection, at any instant, to a
\* store that is empty or holds a task accepted before.
RequestAny == lastCall = NoCall /\ \E m \in Messages : handle_request(m)

SpecRequest == InitSubmit /\ [][RequestAny]_vars

-----------------------------------------------------------------------------
(* Properties.                                                             *)

InStore(id) == id \in Range(tasks)
Dispatched(id) == attempts[id] >= 1
InFlight(s) == pc[s] = "send"

\* C1: a call of __send_http / __send_socket for a task is made only in a
\* step taken when now >= the task's settings_time: no task is dispatched
\* while now < deadline.
NoEarlyFiring ==
    [][\A id \in Ids :
          attempts'[id] > attempts[id]
              => heap[id] # NoTask /\ heap[id].settings_time <= now]_vars

\* C1 witness: one task is being sent at or after its deadline while another,
\* not yet due, waits in the store undispatched.
NoEarlyFiringWitness ==
    \E s \in Threads, id \in Ids :
        /\ InFlight(s)
        /\ heap[cur[s]].settings_time <= now
        /\ InStore(id)
        /\ heap[id].settings_time > now
        /\ ~Dispatched(id)

\* C2: every task is handed to __send_http / __send_socket at most once, also
\* with several scheduler threads scanning the list.
AtMostOnceDispatch == \A id \in Ids : attempts[id] <= 1

\* C3: while a task's network call is in progress the task is not a member
\* of the store.
InFlightNotInStore == \A s \in Threads : InFlight(s) => ~InStore(cur[s])

\* C4: a task whose network call failed is removed from the store and is not
\* dispatched again.
FailedDispatchConsumed ==
    \A id \in failed : ~InStore(id) /\ attempts[id] <= 1

\* C5: an exception raised in a dispatch attempt does not end the scheduler
\* loop: no scheduler thread ever reaches a terminal state.
SchedulerNeverTerminates == \A s \in Threads : pc[s] # "dead"

\* C6: when a scan has gone through the list (the thread sleeps), every http
\* or socket task that was in the store and due when that scan began has been
\* dispatched.
ScanDispatchesAllDue ==
    \A s \in Threads :
        pc[s] = "sleep" =>
            \A id \in dueAtStart[s] : Dispatches(heap[id]) => Dispatched(id)

\* C7: every task that was appended is still a member of the store or has
\* been dispatched.
NoTaskLost == \A id \in Created : InStore(id) \/ Dispatched(id)

\* C7 witness: a task was dispatched and removed while a task appended after
\* it, never dispatched, is still in the store.
NoTaskLostWitness ==
    \E a, b \in Created :
        /\ a < b
        /\ Dispatched(a) /\ ~InStore(a)
        /\ ~Dispatched(b) /\ InStore(b)

Called == lastCall.t = "call"

\* A payload that lacks title, address.type, address.link or settings.time.
MissingRequired(d) ==
    \/ d.title = Absent
    \/ ~IsDict(d.address)
    \/ d.address.type = Absent
    \/ d.address.link = Absent
    \/ ~IsDict(d.settings)
    \/ d.settings.time = Absent

\* C8: add_task of a payload that lacks title, address.type, address.link or
\* settings.time raises ValidateError and leaves the store as it was.
RejectedLeavesStore ==
    Called /\ MissingRequired(lastCall.data)
        => lastCall.raised = "ValidateError" /\ lastCall.after = lastCall.before

\* C8 witness: a submission lacking a required key was rejected with
\* ValidateError while the store held a task accepted earlier.
RejectedLeavesStoreWitness ==
    /\ Called
    /\ MissingRequired(lastCall.data)
    /\ lastCall.raised = "ValidateError"
    /\ Len(lastCall.before) >= 1
    /\ tasks = lastCall.before

\* The zero-delay submission of the scenario.
PingZero ==
    [title |-> Str("ping"), address |-> Address(Str("http"), Url),
     settings |-> Settings(Num(0), Absent)]

\* C9: the submission with title "ping", an http link, settings.time = 0 and
\* no data is accepted: add_task returns and the store holds one task more
\* (which the next scan then sends as a bare GET and removes).
ZeroDelayAccepted ==
    Called /\ lastCall.data = PingZero
        => /\ lastCall.raised = "none"
           /\ Len(lastCall.after) = Len(lastCall.before) + 1

\* A valid submission: non-empty title, address.type http or socket, non-empty
\* address.link, settings.time a number >= 0.
Valid(d) ==
    /\ Truthy(d.title)
    /\ IsDict(d.address)
    /\ d.address.type \in {Str("http"), Str("socket")}
    /\ Truthy(d.address.link)
    /\ IsDict(d.settings)
    /\ d.settings.time.t = "num"
    /\ d.settings.time.n >= 0

\* C10: add_task of a valid submission succeeds and the new task's deadline is
\* the submission instant plus settings.time.
DeadlineIsInstantPlusDelay ==
    Called /\ Valid(lastCall.data)
        => /\ lastCall.raised = "none"
           /\ Len(lastCall.after) = Len(lastCall.before) + 1
           /\ heap[lastCall.after[Len(lastCall.after)]].settings_time
                  = lastCall.at + lastCall.data.settings.time.n

\* C11: add_task of a submission whose settings.time is a negative number
\* raises ValidateError, and no task whose deadline is earlier than its
\* submission instant enters the store.
NegativeDelayRejected ==
    Called /\ IsDict(lastCall.data.settings)
           /\ lastCall.data.settings.time.t = "num"
           /\ lastCall.data.settings.time.n < 0
        => /\ lastCall.raised = "ValidateError"
           /\ lastCall.after = lastCall.before

\* C12: every task in the store has address type http or socket and a
\* non-empty address link.
StoreWellFormed ==
    \A id \in Range(tasks) :
        /\ heap[id].address_type \in {Str("http"), Str("socket")}
        /\ Truthy(heap[id].address_link)

\* C13: a second remove_task call in a row for the same task returns without
\* raising, reports that the task was absent (false; the first call reported
\* true) and leaves the store as it was.
RemoveTwiceIdempotent ==
    lastCall.t = "remove" /\ lastCall.again
        => /\ lastCall.raised = "none"
           /\ lastCall.returned = "False"
           /\ lastCall.after = lastCall.before

\* How often thread s has examined task id in its current scan.
TimesSeen(s, id) ==
    Cardinality({i \in 1..Len(scan[s].seen) : scan[s].seen[i] = id})

\* C14: when a scan has gone through the list (the thread sleeps), every task
\* that was in the store when the scan began has been examined exactly once
\* in it, whatever was added or removed meanwhile.
StableScanSnapshot ==
    \A s \in Threads :
        pc[s] = "sleep" =>
            \A id \in Range(scan[s].start) : TimesSeen(s, id) = 1

\* C15: when the bytes received are not parseable as JSON, handle_request
\* constructs no Task, leaves the store as it was and ends without an error
\* leaving it.
UndecodableLeavesStore ==
    lastCall.t = "request"
        => /\ lastCall.after = lastCall.before
           /\ lastCall.raised = "none"

\* The headers key of a task's settings.data (Absent when there is none).
HeadersOf(task) ==
    IF Truthy(task.settings_data) THEN task.settings_data.headers ELSE Absent

\* C16: while the GET of an http task is in progress, if the task's headers
\* are the literal "auto" the headers sent are exactly one entry, keyed
\* User-Agent, whose value is in the user_agents table; if they are any other
\* value the headers sent are that value unchanged.
AutoHeaderSelection ==
    \A s \in Threads :
        InFlight(s) /\ req[s].kind = "http" /\ HeadersOf(heap[cur[s]]) # Absent
            => IF HeadersOf(heap[cur[s]]) = Str("auto")
               THEN /\ DOMAIN req[s].headers = {"t", "UserAgent"}
                    /\ req[s].headers.UserAgent \in UserAgents
               ELSE req[s].headers = HeadersOf(heap[cur[s]])

\* C16 witness: the GET of an "auto" task is in progress and carries the last
\* entry of the table as its only header.
AutoHeaderSelectionWitness ==
    \E s \in Threads :
        /\ InFlight(s)
        /\ req[s].kind = "http"
        /\ HeadersOf(heap[cur[s]]) = Str("auto")
        /\ req[s].headers = [t |-> "obj", UserAgent |-> PoolSize]

\* C17: no step changes a field of a task that has been constructed: its
\* deadline and its payload stay as Task.__init__ set them.
TaskImmutable ==
    [][\A id \in Ids : heap[id] # NoTask => heap'[id] = heap[id]]_vars

\* C17 witness: a task submitted with headers "auto" has been sent and
\* removed, and its payload still reads "auto".
TaskImmutableWitness ==
    \E id \in Created :
        /\ Dispatched(id)
        /\ ~InStore(id)
        /\ heap[id].address_type = Str("http")
        /\ heap[id].settings_data = Data(Str("auto"))

\* C18: every call of TaskManager() returns the object the first call
\* returned.
ManagerIsSingleton ==
    \A i \in 1..Len(managers) : managers[i] = managers[1]

\* The part of C19 on the store: a task whose address type is neither http
\* nor socket is never dispatched and never leaves the store.
UnknownTypeKept ==
    \A id \in Created : ~Dispatches(heap[id]) => InStore(id) /\ ~Dispatched(id)

\* C19: a task whose address type is neither http nor socket is never
\* dispatched and never leaves the store, and every scan that began at or
\* after its deadline has examined it when the scan has gone through the list.
UnknownTypeInert ==
    /\ UnknownTypeKept
    /\ \A s \in Threads :
          pc[s] = "sleep" =>
              \A id \in dueAtStart[s] :
                  ~Dispatches(heap[id]) => TimesSeen(s, id) >= 1

\* The state part of C20: at most one network call is in progress, and
\* append_task is not blocked while one is (there being room for a task).
OneCallInProgress ==
    /\ Cardinality({s \in Threads : InFlight(s)}) <= 1
    /\ \A s \in Threads :
          InFlight(s) /\ Cardinality(Created) < MaxTasks => ENABLED Submit

\* The step part of C20: while a send is in progress its thread examines no
\* task, and a task leaves the store only in the step in which its send
\* returns without raising.
SequentialStep ==
    /\ \A s \in Threads :
          InFlight(s) => idx'[s] = idx[s] /\ scan'[s] = scan[s]
    /\ \A id \in Ids :
          InStore(id) /\ id \notin Range(tasks')
              => \E s \in Threads :
                    /\ InFlight(s)
                    /\ cur[s] = id
                    /\ pc'[s] = "scan"
                    /\ id \notin failed'

\* C20: with the one scheduler thread, dispatch is strictly sequential: at
\* most one network call is in progress, the scan examines no further task
\* until the send has returned, a task is removed only after its send returned
\* without raising, and append_task is not blocked during a send.
SequentialDispatch == []OneCallInProgress /\ [][SequentialStep]_vars

\* C20 witness: a send is in progress, a task accepted during it waits in the
\* store behind the iterator, unexamined.
SequentialDispatchWitness ==
    /\ InFlight(1)
    /\ idx[1] < Len(tasks)
    /\ tasks[Len(tasks)] \notin Range(scan[1].start)
    /\ tasks[Len(tasks)] \notin Range(scan[1].seen)

====
